---------------------------- MODULE Spec2Model ----------------------------
(***************************************************************************)
(* Model of src/mes2plus/sync_reimport_sn.py: the MES -> PLUS serial-number *)
(* drift detection and reimport job.                                        *)
(*                                                                          *)
(* Strings that the program inspects character by character (raw order      *)
(* strings, order codes) are sequences of one-character strings.  Database  *)
(* tables are bags (multisets) of rows: SQL gives no order and allows       *)
(* duplicates.                                                              *)
(***************************************************************************)
EXTENDS Integers, Sequences, FiniteSets, Bags, TLC

\* ------------------------------------------------------------------ bounds
MaxLen == 8          \* longest enumerated raw order string (SpecExtract)
MaxRows == 2         \* most rows of an enumerated initial table

\* ------------------------------------------------- character classes (re)
Upper == {"A","B","C","D","E","F","G","H","I","J","K","L","M",
          "N","O","P","Q","R","S","T","U","V","W","X","Y","Z"}
Digit == {"0","1","2","3","4","5","6","7","8","9"}
OrderChar == Upper \cup Digit \cup {"-"}

\* (?=-[0-9]-[0-9]) tried with the cursor after the first p characters of s
SuffixAhead(s, p) ==
    /\ p + 4 <= Len(s)
    /\ s[p + 1] = "-"
    /\ s[p + 2] \in Digit
    /\ s[p + 3] = "-"
    /\ s[p + 4] \in Digit

\* the match ends of [A-Z]+[A-Z0-9-]* anchored at position i (1-based):
\* s[i] is an uppercase letter and every further character is in the class
RunEnds(s, i) ==
    {e \in i..Len(s) : /\ s[i] \in Upper
                       /\ \A k \in i..e : s[k] \in OrderChar}

Max(S) == CHOOSE m \in S : \A n \in S : n <= m
Min(S) == CHOOSE m \in S : \A n \in S : m <= n

\* re.search(r"[A-Z]+[A-Z0-9-]*(?=-[0-9]-[0-9])", s): the leftmost start that
\* has a match; both quantifiers are greedy and backtrack, so at that start
\* the longest end that passes the lookahead wins.  <<>> stands for None.
SuffixEnds(s, i) == {e \in RunEnds(s, i) : SuffixAhead(s, e)}
SearchWithSuffix(s) ==
    LET starts == {i \in 1..Len(s) : SuffixEnds(s, i) # {}}
    IN  IF starts = {} THEN <<>>
        ELSE LET i == Min(starts) IN SubSeq(s, i, Max(SuffixEnds(s, i)))

\* re.search(r"[A-Z]+[A-Z0-9-]*", s): leftmost start, longest run from there
SearchNormal(s) ==
    LET starts == {i \in 1..Len(s) : RunEnds(s, i) # {}}
    IN  IF starts = {} THEN <<>>
        ELSE LET i == Min(starts) IN SubSeq(s, i, Max(RunEnds(s, i)))

\* a variant that takes the shortest match instead of the longest
extract_order_number_lazy(order) ==
    LET starts == {i \in 1..Len(order) : SuffixEnds(order, i) # {}}
    IN  IF starts # {}
        THEN LET i == Min(starts) IN SubSeq(order, i, Min(SuffixEnds(order, i)))
        ELSE IF SearchNormal(order) # <<>> THEN SearchNormal(order) ELSE order

\* a variant whose plain pattern has no hyphen in its class
extract_order_number_nohyphen(order) ==
    IF SearchWithSuffix(order) # <<>> THEN SearchWithSuffix(order)
    ELSE LET starts == {i \in 1..Len(order) : order[i] \in Upper}
         IN  IF starts = {} THEN order
             ELSE LET i == Min(starts)
                      ends == {e \in i..Len(order) :
                                 \A k \in i..e : order[k] \in Upper \cup Digit}
                  IN  SubSeq(order, i, Max(ends))

\* __extract_order_number
extract_order_number(order) ==
    IF SearchWithSuffix(order) # <<>> THEN SearchWithSuffix(order)
    ELSE IF SearchNormal(order) # <<>> THEN SearchNormal(order)
    ELSE order


\* ------------------------------------------------------------ the two stores

Str_ORD5 == <<"O","R","D","-","5">>
Str_ORD5_1_2 == <<"O","R","D","-","5","-","1","-","2">>
Str_ORD6 == <<"O","R","D","-","6">>
RawOrders == {Str_ORD5, Str_ORD5_1_2, Str_ORD6}
\* line 218 for every order string a batch can carry
ExtractedOrder == [r \in RawOrders |-> extract_order_number(r)]
OrderCodes == {ExtractedOrder[r] : r \in RawOrders}

Codes == {"A1", "A2"}
BatchIds == {1, 2}   \* bc_id of the recent batches, in query order
RunIds == {1, 2}     \* a run of the job and the run the scheduler starts next

\* every bag over S with at most n elements
BagsOver(S, n) ==
    {b \in UNION {[T -> 1..n] : T \in SUBSET S} : BagCardinality(b) <= n}

\* rows of `物料扫码-SN库` for one order code: a bag of [code, item, source]
Row(c, item, source) == [code |-> c, item |-> item, source |-> source]
RowsOf(codes, item, source) ==
    LET rows == {Row(c, item, source) : c \in BagToSet(codes)}
    IN  [r \in rows |-> CopiesIn(r.code, codes)]

\* [code["code"] for code in rows]: the bag of the rows' codes
CodesOf(rows) ==
    LET cs == {r.code : r \in BagToSet(rows)}
    IN  [c \in cs |-> BagCardinality([r \in {x \in BagToSet(rows) : x.code = c}
                                        |-> CopiesIn(r, rows)])]

NoTxn == [open |-> FALSE, order_code |-> <<>>, rows |-> EmptyBag]
NoRead == [read |-> FALSE, order_code |-> <<>>, rows |-> EmptyBag,
           pre |-> EmptyBag, post |-> EmptyBag]
NotCalled == <<"?">>

VARIABLES
    barcode_creations,  \* result of query_mes_recently_barcode_creations
    barcode_data,       \* jgmes_barcode_data, delete_flag = 0: bc_id -> codes
    sn_library,         \* committed `物料扫码-SN库`: order code -> rows
    incoming,           \* `物料扫码-库存`: order code -> codes
    outgoing,           \* `物料扫码-出库`: order code -> codes
    run,                \* which invocation of the job is executing
    idx,                \* position of the for loop in barcode_creations
    pc,                 \* position of __main__ inside the loop body
    plus_codes,         \* local: codes of query_plus_imported_barcodes
    txn,                \* uncommitted view of plus_txn_conn
    before,             \* history: sn_library when plus_txn_conn was opened
    outcome,            \* history: run -> batch -> how the iteration ended
    writes,             \* history: statements issued on plus_txn_conn
    completed,          \* history: runs that reached the end of __main__
    seen,               \* last result of a reader on another connection
    trial,              \* SpecOrder: the tables a run started on and ended with
    raw,                \* SpecExtract: argument of __extract_order_number
    result              \* SpecExtract: its return value, <<"?">> before the call

vars == <<barcode_creations, barcode_data, sn_library, incoming, outgoing,
          run, idx, pc, plus_codes, txn, before, outcome, writes, completed, seen,
          trial, raw, result>>
store == <<barcode_creations, barcode_data, incoming, outgoing>>
extractor == <<raw, result>>

\* ----------------------------------------------- locals of the loop body
barcode_creation == barcode_creations[idx]
order_code == ExtractedOrder[barcode_creation.order_code]
mes_codes == barcode_data[barcode_creation.bc_id]
inv_code == barcode_creation.inv_code

\* ------------------------------------------------------------ the guards
\* a comparison that never reports a mismatch
CountMismatchIgnored(mes, plus) == FALSE

\* an inverted comparison
SameCodesInverted(mes, plus) == BagToSet(mes) # BagToSet(plus)

\* a guard that looks at the incoming table only
MovementLockedIncomingOnly(inc, out) == inc # EmptyBag

\* len(mes_codes) != len(plus_codes)
CountMismatch(mes, plus) == BagCardinality(mes) # BagCardinality(plus)

\* set(mes_codes) == set(plus_codes)
SameCodes(mes, plus) == BagToSet(mes) = BagToSet(plus)

\* plus_incoming_barcodes or plus_outgoing_barcodes
MovementLocked(inc, out) == inc # EmptyBag \/ out # EmptyBag

Stmt(op, n) ==
    [run |-> run, bc_id |-> barcode_creation.bc_id, order_code |-> order_code,
     op |-> op, rowcount |-> n, mes |-> mes_codes, plus |-> plus_codes]

\* `continue`, or the end of the loop body; the locals are dead from here on
EndIteration(how) ==
    /\ outcome' = [outcome EXCEPT ![run][idx] = how]
    /\ plus_codes' = EmptyBag
    /\ idx' = idx + 1
    /\ pc' = "loop"

InLoop == pc = "loop" /\ idx <= Len(barcode_creations)


\* --------------------------------------------------------------- __main__
\* lines 217-236: extract the order code, read both sides, counts differ
SkipCountMismatch ==
    /\ InLoop
    /\ LET plus == CodesOf(sn_library[order_code])
       IN  CountMismatch(mes_codes, plus)
    /\ EndIteration("skipped_count")
    /\ UNCHANGED <<trial, store, sn_library, run, txn, before, writes, completed,
                   seen, extractor>>

\* lines 217-241: counts agree and the code sets are equal
SkipSameCodes ==
    /\ InLoop
    /\ LET plus == CodesOf(sn_library[order_code])
       IN  /\ ~CountMismatch(mes_codes, plus)
           /\ SameCodes(mes_codes, plus)
    /\ EndIteration("skipped_equal")
    /\ UNCHANGED <<trial, store, sn_library, run, txn, before, writes, completed,
                   seen, extractor>>

\* lines 217-241: neither comparison guard fires
PassComparison ==
    /\ InLoop
    /\ LET plus == CodesOf(sn_library[order_code])
       IN  /\ ~CountMismatch(mes_codes, plus)
           /\ ~SameCodes(mes_codes, plus)
           /\ plus_codes' = plus
    /\ pc' = "guard"
    /\ UNCHANGED <<trial, store, sn_library, run, idx, txn, before, outcome, writes,
                   completed, seen, extractor>>

\* lines 243-248: incoming or outgoing rows exist
SkipMovementLocked ==
    /\ pc = "guard"
    /\ MovementLocked(incoming[order_code], outgoing[order_code])
    /\ EndIteration("skipped_locked")
    /\ UNCHANGED <<trial, store, sn_library, run, txn, before, writes, completed,
                   seen, extractor>>

\* lines 243-251: no movement; plus_txn_conn = get_plus_conn(autocommit=False)
OpenTxn ==
    /\ pc = "guard"
    /\ ~MovementLocked(incoming[order_code], outgoing[order_code])
    /\ txn' = [open |-> TRUE, order_code |-> order_code,
               rows |-> sn_library[order_code]]
    /\ before' = sn_library
    /\ writes' = writes \cup {Stmt("open", 0)}
    /\ pc' = "delete"
    /\ UNCHANGED <<trial, store, sn_library, run, idx, plus_codes, outcome, completed,
                   seen, extractor>>

\* a delete issued on a connection that commits every statement
DeleteAutocommit ==
    /\ pc = "delete"
    /\ sn_library' = [sn_library EXCEPT ![order_code] = EmptyBag]
    /\ txn' = [txn EXCEPT !.rows = EmptyBag]
    /\ writes' = writes \cup {Stmt("delete", BagCardinality(txn.rows))}
    /\ pc' = "insert"
    /\ UNCHANGED <<trial, store, run, idx, plus_codes, before, outcome, completed,
                   seen, extractor>>

\* lines 254-255: delete_plus_imported_barcodes(plus_txn_conn, order_code)
Delete ==
    /\ pc = "delete"
    /\ txn' = [txn EXCEPT !.rows = EmptyBag]
    /\ writes' = writes \cup {Stmt("delete", BagCardinality(txn.rows))}
    /\ pc' = "insert"
    /\ UNCHANGED <<trial, store, sn_library, run, idx, plus_codes, before, outcome,
                   completed, seen, extractor>>

\* lines 258-264: insert_plus_barcodes(plus_txn_conn, order_code, inv_code, ...)
Insert ==
    /\ pc = "insert"
    /\ txn' = [txn EXCEPT !.rows = @ (+) RowsOf(mes_codes, inv_code, "robot")]
    /\ writes' = writes \cup {Stmt("insert", BagCardinality(mes_codes))}
    /\ pc' = "commit"
    /\ UNCHANGED <<trial, store, sn_library, run, idx, plus_codes, before, outcome,
                   completed, seen, extractor>>

\* lines 266-267: plus_txn_conn.commit()
Commit ==
    /\ pc = "commit"
    /\ sn_library' = [sn_library EXCEPT ![txn.order_code] = txn.rows]
    /\ writes' = writes \cup {Stmt("commit", 0)}
    /\ pc' = "close"
    /\ UNCHANGED <<trial, store, run, idx, plus_codes, txn, before, outcome,
                   completed, seen, extractor>>

\* lines 271-273 after a commit: close the connection, next iteration
CloseCommitted ==
    /\ pc = "close"
    /\ txn' = NoTxn
    /\ EndIteration("reimported")
    /\ UNCHANGED <<trial, store, sn_library, run, before, writes, completed, seen,
                   extractor>>

\* lines 252-270: the delete, the insert (after any part of it was applied
\* inside the transaction) or the commit raises; the except clause logs
TxnRaises ==
    /\ \/ pc = "delete" /\ UNCHANGED txn
       \/ /\ pc = "insert"
          /\ \E part \in SubBag(mes_codes) :
                /\ part # mes_codes
                /\ txn' = [txn EXCEPT !.rows = @ (+) RowsOf(part, inv_code, "robot")]
       \/ pc = "commit" /\ UNCHANGED txn
    /\ pc' = "except"
    /\ UNCHANGED <<trial, store, sn_library, run, idx, plus_codes, before, outcome,
                   writes, completed, seen, extractor>>

\* a close that commits what the transaction holds
CloseFailedCommits ==
    /\ pc = "except"
    /\ sn_library' = [sn_library EXCEPT ![txn.order_code] = txn.rows]
    /\ txn' = NoTxn
    /\ outcome' = [outcome EXCEPT ![run][idx] = "failed"]
    /\ pc' = "aborted"
    /\ UNCHANGED <<trial, store, run, idx, plus_codes, before, writes, completed,
                   seen, extractor>>

\* an except clause that logs and goes on with the next batch
CloseFailedContinues ==
    /\ pc = "except"
    /\ txn' = NoTxn
    /\ EndIteration("failed")
    /\ UNCHANGED <<trial, store, sn_library, run, before, writes, completed, seen,
                   extractor>>

\* lines 270-282: `raise e`; finally closes plus_txn_conn without a commit, so
\* the server rolls the transaction back; the outer except logs and raises
\* again, the outer finally closes both connections: the process ends
CloseFailed ==
    /\ pc = "except"
    /\ txn' = NoTxn
    /\ outcome' = [outcome EXCEPT ![run][idx] = "failed"]
    /\ pc' = "aborted"
    /\ UNCHANGED <<trial, store, sn_library, run, idx, plus_codes, before, writes,
                   completed, seen, extractor>>

\* lines 275-282: a read query or get_plus_conn raises outside the inner try
FatalError ==
    /\ \/ InLoop
       \/ pc = "guard"
    /\ pc' = "aborted"
    /\ UNCHANGED <<trial, store, sn_library, run, idx, plus_codes, txn, before,
                   outcome, writes, completed, seen, extractor>>

\* lines 217, 278-282: the loop is exhausted, both connections are closed
Finish ==
    /\ pc = "loop"
    /\ idx > Len(barcode_creations)
    /\ completed' = completed \cup {run}
    /\ pc' = "done"
    /\ UNCHANGED <<trial, store, sn_library, run, idx, plus_codes, txn, before,
                   outcome, writes, seen, extractor>>

\* lines 195-214: the scheduler invokes the job again after a completed run;
\* nothing upstream or downstream changed in between
NextRun ==
    /\ pc = "done"
    /\ run + 1 \in RunIds
    /\ run' = run + 1
    /\ idx' = 1
    /\ pc' = "loop"
    /\ UNCHANGED <<trial, store, sn_library, plus_codes, txn, before, outcome,
                   writes, completed, seen, extractor>>

\* query_plus_imported_barcodes on another connection while a reimport of the
\* order code is in flight: it returns the committed rows
Read ==
    /\ pc \in {"delete", "insert", "commit", "close", "except"}
    /\ seen' = [read |-> TRUE, order_code |-> txn.order_code,
                rows |-> sn_library[txn.order_code],
                pre |-> before[txn.order_code],
                post |-> RowsOf(mes_codes, inv_code, "robot")]
    /\ UNCHANGED <<trial, store, sn_library, run, idx, pc, plus_codes, txn, before,
                   outcome, writes, completed, extractor>>


\* ------------------------------------------------------------------- Init
ItemOf(b) == IF b = 1 THEN "ITEM-1" ELSE "ITEM-2"
Creation(b, order) == [bc_id |-> b, order_code |-> order, inv_code |-> ItemOf(b)]

\* the number of rows of a table that is kept as key -> bag of rows
RECURSIVE TableSize(_, _)
TableSize(table, keys) ==
    IF keys = {} THEN 0
    ELSE LET k == CHOOSE x \in keys : TRUE
         IN  BagCardinality(table[k]) + TableSize(table, keys \ {k})

Tables(keys, n) ==
    {t \in [keys -> BagsOver(Codes, n)] : TableSize(t, keys) <= n}

InitRun ==
    /\ run = 1
    /\ idx = 1
    /\ pc = "loop"
    /\ plus_codes = EmptyBag
    /\ txn = NoTxn
    /\ before = sn_library
    /\ outcome = [r \in RunIds |-> [b \in BatchIds |-> "pending"]]
    /\ writes = {}
    /\ completed = {}
    /\ seen = NoRead
    /\ trial = [again |-> FALSE, start |-> sn_library, end |-> sn_library]
    /\ raw = <<>>
    /\ result = NotCalled

\* the job starts on any recent batches and any downstream tables
InitEnumerated ==
    /\ \E n \in BatchIds :
         \E orders \in [1..n -> RawOrders] :
            barcode_creations = [b \in 1..n |-> Creation(b, orders[b])]
    /\ barcode_data \in Tables(BatchIds, MaxRows)
    /\ \E lib \in Tables(OrderCodes, MaxRows) :
         sn_library = [o \in OrderCodes |-> RowsOf(lib[o], "ITEM-0", "manual")]
    /\ incoming \in Tables(OrderCodes, 1)
    /\ outgoing \in Tables(OrderCodes, 1)
    /\ \A b \in BatchIds : b > Len(barcode_creations) => barcode_data[b] = EmptyBag
    /\ InitRun

\* the end-to-end scenario: one batch {A1,A2,A3} for "ORD-5", {A1,A2} imported
InitScenario ==
    /\ barcode_creations = <<Creation(1, Str_ORD5)>>
    /\ barcode_data = [b \in BatchIds |->
                         IF b = 1 THEN SetToBag({"A1", "A2", "A3"}) ELSE EmptyBag]
    /\ sn_library = [o \in OrderCodes |->
                       IF o = Str_ORD5
                       THEN RowsOf(SetToBag({"A1", "A2"}), "ITEM-0", "manual")
                       ELSE EmptyBag]
    /\ incoming = [o \in OrderCodes |-> EmptyBag]
    /\ outgoing = [o \in OrderCodes |-> EmptyBag]
    /\ InitRun

Init == InitEnumerated \/ InitScenario

Next ==
    \/ SkipCountMismatch
    \/ SkipSameCodes
    \/ PassComparison
    \/ SkipMovementLocked
    \/ OpenTxn
    \/ Delete
    \/ Insert
    \/ Commit
    \/ CloseCommitted
    \/ TxnRaises
    \/ CloseFailed
    \/ FatalError
    \/ Finish
    \/ NextRun
    \/ Read

Spec == Init /\ [][Next]_vars


\* ------------------------------------------- __extract_order_number alone
Alphabet == {"A", "1", "-", "x"}
Str_ABC_123_1_2 == <<"A","B","C","-","1","2","3","-","1","-","2">>
Str_ABC_123 == <<"A","B","C","-","1","2","3">>
Str_XYZ99_Note == <<"X","Y","Z","9","9","-","N","o","t","e">>
Str_XYZ99 == <<"X","Y","Z","9","9">>
Str_XYZ99_N == <<"X","Y","Z","9","9","-","N">>
RawStrings ==
    UNION {[1..n -> Alphabet] : n \in 0..MaxLen}
        \cup RawOrders \cup {Str_ABC_123_1_2, Str_XYZ99_Note}

InitExtract ==
    /\ raw \in RawStrings
    /\ result = NotCalled
    /\ barcode_creations = <<>>
    /\ barcode_data = [b \in BatchIds |-> EmptyBag]
    /\ sn_library = [o \in OrderCodes |-> EmptyBag]
    /\ incoming = [o \in OrderCodes |-> EmptyBag]
    /\ outgoing = [o \in OrderCodes |-> EmptyBag]
    /\ run = 1
    /\ idx = 1
    /\ pc = "done"
    /\ plus_codes = EmptyBag
    /\ txn = NoTxn
    /\ before = sn_library
    /\ outcome = [r \in RunIds |-> [b \in BatchIds |-> "pending"]]
    /\ writes = {}
    /\ completed = {}
    /\ seen = NoRead
    /\ trial = [again |-> FALSE, start |-> sn_library, end |-> sn_library]

\* lines 101-116: one call of __extract_order_number(raw)
ExtractCall ==
    /\ result = NotCalled
    /\ result' = extract_order_number(raw)
    /\ UNCHANGED <<trial, store, sn_library, run, idx, pc, plus_codes, txn, before,
                   outcome, writes, completed, seen, raw>>

NextExtract == ExtractCall

SpecExtract == InitExtract /\ [][NextExtract]_vars


\* =================================================================== claims
Empty(bag) == BagToSet(bag) = {}
Final == {"skipped_count", "skipped_equal", "skipped_locked", "reimported",
          "failed"}
Scenario == barcode_data[1] = SetToBag({"A1", "A2", "A3"})
WritesOf(r, b) == {w \in writes : w.run = r /\ w.bc_id = b}

\* C1: every statement the engine issues on the write connection (open,
\* delete, insert, commit) is for an order code that has no incoming and no
\* outgoing row; an order code with such a row is never written.
C1_MovementLock ==
    \A w \in writes :
        /\ Empty(incoming[w.order_code])
        /\ Empty(outgoing[w.order_code])

\* C1 witness: a batch whose codes differ from the imported ones was skipped
\* by the movement guard while its order code still has no statement.
C1_Witness ==
    \E r \in RunIds, b \in BatchIds :
        /\ outcome[r][b] = "skipped_locked"
        /\ WritesOf(r, b) = {}
        /\ ~Empty(outgoing[ExtractedOrder[barcode_creations[b].order_code]])

\* C2: no statement is issued for a batch whose upstream code set equals the
\* imported code set of its order code, as read in that iteration.
C2_EqualityShortCircuit ==
    \A w \in writes : BagToSet(w.mes) # BagToSet(w.plus)

\* C2 witness: a batch with a non-empty, equal code set ended skipped with no
\* statement issued for it.
C2_Witness ==
    \E r \in RunIds, b \in BatchIds :
        /\ outcome[r][b] = "skipped_equal"
        /\ ~Empty(barcode_data[b])
        /\ WritesOf(r, b) = {}

\* C3: once a failed write transaction's connection is closed, the committed
\* imported rows are exactly the rows from before the reimport.
C3_ReimportAtomic ==
    (pc = "aborted" /\ outcome[run][idx] = "failed") => sn_library = before

\* C3 witness: the failure came after a delete that removed rows and before
\* the insert completed, and the connection has been closed.
C3_Witness ==
    /\ pc = "aborted"
    /\ outcome[run][idx] = "failed"
    /\ \E w \in WritesOf(run, idx) : w.op = "delete" /\ w.rowcount > 0
    /\ \A w \in WritesOf(run, idx) : w.op # "insert"
    /\ ~Empty(sn_library[order_code])

\* C4: right after a reimport commits, the imported rows of the order code
\* are the batch's codes: all of them, no row from before, none twice.
C4_ReplacesFully ==
    pc = "close" =>
        LET rows == sn_library[order_code]
        IN  /\ {r.code : r \in BagToSet(rows)} = BagToSet(mes_codes)
            /\ \A r \in BagToSet(rows) : r.source = "robot"
            /\ \A r \in BagToSet(rows) : CopiesIn(r, rows) = 1

\* C5 as stated: a batch whose counts differ and whose order code has no
\* movement is not skipped, and the end-to-end scenario ends with
\* {A1,A2,A3} imported after a delete of 2 and an insert of 3 rows.
C5_AsStated ==
    /\ \A r \in RunIds, b \in BatchIds :
         outcome[r][b] = "skipped_count" =>
            LET o == ExtractedOrder[barcode_creations[b].order_code]
            IN  ~Empty(incoming[o]) \/ ~Empty(outgoing[o])
    /\ (Scenario /\ 1 \in completed) =>
         /\ {r.code : r \in BagToSet(sn_library[Str_ORD5])} = {"A1", "A2", "A3"}
         /\ \E w \in writes : w.op = "delete" /\ w.rowcount = 2
         /\ \E w \in writes : w.op = "insert" /\ w.rowcount = 3

\* C5 amended: a batch whose upstream count differs from the imported count
\* is skipped with no statement issued; in the scenario the run ends with no
\* statement and the imported rows still {A1,A2}.
C5_CountMismatchSkips ==
    /\ \A w \in writes : BagCardinality(w.mes) = BagCardinality(w.plus)
    /\ (Scenario /\ 1 \in completed) =>
         /\ writes = {}
         /\ outcome[1][1] = "skipped_count"
         /\ sn_library[Str_ORD5] = RowsOf(SetToBag({"A1", "A2"}), "ITEM-0", "manual")

\* C5 witness: the scenario's run has completed.
C5_Witness ==
    /\ Scenario
    /\ 1 \in completed
    /\ outcome[1][1] = "skipped_count"

\* C6: the run that follows a completed run issues no statement.
C6_Idempotent ==
    \A w \in writes : \A r \in completed : w.run # r + 1

\* C7 as stated: when a batch's write transaction fails, every batch of the
\* run has still reached skipped, reimported or failed when the run ends.
C7_AsStated ==
    \A r \in RunIds, b \in BatchIds :
        (outcome[r][b] = "failed" /\ r = run /\ pc \in {"done", "aborted"}) =>
            \A b2 \in 1..Len(barcode_creations) : outcome[r][b2] \in Final

\* C7 amended: when a batch's write transaction fails, the transaction is
\* rolled back, the batch ends failed and the run ends there: the exception
\* is raised again and no later batch is processed.
C7_FailureEndsRun ==
    \A r \in RunIds, b \in BatchIds :
        outcome[r][b] = "failed" =>
            /\ r = run
            /\ idx = b
            /\ pc = "aborted"
            /\ txn = NoTxn
            /\ sn_library = before
            /\ \A b2 \in BatchIds : b2 > b => outcome[r][b2] = "pending"

\* C7 witness: the first of two batches failed.
C7_Witness ==
    /\ Len(barcode_creations) = 2
    /\ outcome[run][1] = "failed"

\* C8: a reader on another connection, during a reimport of an order code,
\* gets either all the rows from before the reimport or all the rows the
\* reimport inserts, and never no rows where there were some.
C8_AtomicVisibility ==
    seen.read =>
        /\ seen.rows \in {seen.pre, seen.post}
        /\ Empty(seen.rows) => Empty(seen.pre)

\* C8 witness: a read between the delete and the insert returned the rows
\* from before the reimport.
C8_Witness ==
    /\ seen.read
    /\ pc = "insert"
    /\ Empty(txn.rows)
    /\ ~Empty(seen.rows)
    /\ seen.rows = seen.pre


\* ---------------------------------------- claims on __extract_order_number
Called == result # NotCalled
HasSuffix(s) == \E p \in 0..Len(s) : SuffixAhead(s, p)
\* s[i..e] is an uppercase letter followed by letters, digits and hyphens
IsRun(s, i, e) ==
    /\ 1 <= i /\ i <= e /\ e <= Len(s)
    /\ s[i] \in Upper
    /\ \A k \in i..e : s[k] \in Upper \cup Digit \cup {"-"}
\* such a run immediately followed by -<digit>-<digit>
IsSuffixedRun(s, i, e) == IsRun(s, i, e) /\ SuffixAhead(s, e)

\* C9 as stated: for a string that contains a -<digit>-<digit> suffix the
\* result is the part of the string before such a suffix.
C9_AsStated ==
    (Called /\ HasSuffix(raw)) =>
        \E p \in 0..Len(raw) : SuffixAhead(raw, p) /\ result = SubSeq(raw, 1, p)

\* C9 amended: when some uppercase letter starts a run of uppercase letters,
\* digits and hyphens that is immediately followed by -<digit>-<digit>, the
\* result is the run from the leftmost such letter up to the last such suffix
\* of that run, the suffix stripped; "ABC-123-1-2" gives "ABC-123".
C9_SuffixedForm ==
    Called =>
        /\ (\E i, e \in 1..Len(raw) : IsSuffixedRun(raw, i, e)) =>
              \E i, e \in 1..Len(raw) :
                 /\ IsSuffixedRun(raw, i, e)
                 /\ result = SubSeq(raw, i, e)
                 /\ \A j, f \in 1..Len(raw) :
                       IsSuffixedRun(raw, j, f) => (i < j \/ (i = j /\ f <= e))
        /\ raw = Str_ABC_123_1_2 => result = Str_ABC_123

\* C9 witness: a run with two chained suffixes behind a character that is
\* not an uppercase letter, of which the last suffix only was stripped.
C9_Witness ==
    /\ Called
    /\ Len(raw) > 0
    /\ raw[1] \notin Upper
    /\ \E i, e, f \in 1..Len(raw) :
          /\ e < f
          /\ IsSuffixedRun(raw, i, e)
          /\ IsSuffixedRun(raw, i, f)
          /\ result = SubSeq(raw, i, f)

\* C10 as stated: for a string without a -<digit>-<digit> suffix that starts
\* with an uppercase letter the result is the longest run of uppercase
\* letters, digits and hyphens in the string; "XYZ99-Note" gives "XYZ99".
C10_AsStated ==
    (Called /\ ~HasSuffix(raw) /\ Len(raw) > 0 /\ raw[1] \in Upper) =>
        /\ \E i, e \in 1..Len(raw) :
              /\ IsRun(raw, i, e)
              /\ result = SubSeq(raw, i, e)
              /\ \A j, f \in 1..Len(raw) : IsRun(raw, j, f) => f - j <= e - i
        /\ raw = Str_XYZ99_Note => result = Str_XYZ99

\* C10 amended: for a string without a -<digit>-<digit> suffix that starts
\* with an uppercase letter the result is the longest prefix of the string
\* made of uppercase letters, digits and hyphens; "XYZ99-Note" gives
\* "XYZ99-N".
C10_PlainForm ==
    (Called /\ ~HasSuffix(raw) /\ Len(raw) > 0 /\ raw[1] \in Upper) =>
        /\ \E e \in 1..Len(raw) :
              /\ IsRun(raw, 1, e)
              /\ result = SubSeq(raw, 1, e)
              /\ e < Len(raw) => ~IsRun(raw, 1, e + 1)
        /\ raw = Str_XYZ99_Note => result = Str_XYZ99_N

\* C10 witness: the call on "XYZ99-Note" returned "XYZ99-N".
C10_Witness ==
    /\ Called
    /\ raw = Str_XYZ99_Note
    /\ result = Str_XYZ99_N


\* ------------------------------------------- the same batches, another order
\* the orders in which ORDER BY t1.last_update_date DESC can return the rows
\* of one result: one per assignment of update times to the batches
Orders(rows) ==
    {s \in [1..Len(rows) -> {rows[i] : i \in 1..Len(rows)}] :
        \A i, j \in 1..Len(rows) : i # j => s[i] # s[j]}

\* lines 195-217: the job is invoked on the tables the first run started on,
\* the recent batches being the same rows with other update times
Reprocess ==
    /\ pc = "done"
    /\ ~trial.again
    /\ run + 1 \in RunIds
    /\ trial' = [trial EXCEPT !.again = TRUE, !.end = sn_library]
    /\ sn_library' = trial.start
    /\ barcode_creations' \in Orders(barcode_creations)
    /\ run' = run + 1
    /\ idx' = 1
    /\ pc' = "loop"
    /\ UNCHANGED <<barcode_data, incoming, outgoing, plus_codes, txn, before,
                   outcome, writes, completed, seen, extractor>>

NextOrder ==
    \/ SkipCountMismatch
    \/ SkipSameCodes
    \/ PassComparison
    \/ SkipMovementLocked
    \/ OpenTxn
    \/ Delete
    \/ Insert
    \/ Commit
    \/ CloseCommitted
    \/ TxnRaises
    \/ CloseFailed
    \/ FatalError
    \/ Finish
    \/ Reprocess
    \/ Read

SpecOrder == Init /\ [][NextOrder]_vars

\* C11: two runs that start on the same downstream tables and process the
\* same batches, in any two orders, end with the same imported codes for
\* every order code.
C11_OrderIndependent ==
    (trial.again /\ pc = "done" /\ completed = {1, 2}) =>
        \A o \in OrderCodes : CodesOf(sn_library[o]) = CodesOf(trial.end[o])

=============================================================================
